---- MODULE Spec2Model ----
(***************************************************************************)
(* The PDF pipeline of openai_server.py: ocr_pdf_handle and                *)
(* stream_ocr_pdf_handle, one request on one document.                     *)
(*                                                                         *)
(* A text is a sequence of tokens; the end-of-sequence marker is one       *)
(* token.  A snapshot is what engine.generate yields: output.outputs, a    *)
(* sequence holding no completion or one completion text.  The markdown    *)
(* accumulators are kept as sequences of blocks, one block per             *)
(* "content + page-break marker" that the code appends, each block tagged  *)
(* with the page its text was generated from.                              *)
(*                                                                         *)
(* Spec is the PDF pipeline together with stream_response; SpecCrops is    *)
(* the same pipeline on page texts that hold an image span; SpecText hands *)
(* one generated text to parse_detections and to the page body of the PDF  *)
(* loop (re_match, draw_bounding_boxes, the clean-markdown replacements).  *)
(***************************************************************************)
EXTENDS Integers, Sequences, FiniteSets, TLC

\* ---- bounds ----
MaxPages == 2
MaxWorkers == 2
MaxSnaps == 2
MaxLen == 1

\* ---- texts, snapshots, engine traces ----
EOS == "<eos>"
Alphabet == {"a", EOS}
SeqsUpTo(S, n) == UNION {[1..k -> S] : k \in 0..n}
Texts == SeqsUpTo(Alphabet, MaxLen)

\* request.messages[0]["content"][0]["text"], as tokens
RequestPrompt == <<"Convert">>

VARIABLES
  mode,           \* "pdf": ocr_pdf_handle, "stream": stream_ocr_pdf_handle,
                  \* "chat": stream_response on an image, "ocr": one text
  SKIP_REPEAT,    \* config.SKIP_REPEAT
  NUM_WORKERS,    \* config.NUM_WORKERS
  page_count,     \* number of pages of the uploaded PDF
  pc,             \* position of the handler
  exc,            \* the exception that ended the handler, "none" if none
  tmp_exists,     \* the temporary PDF file exists on disk
  tmp_file_path,  \* "None" or the name of the temporary file
  images,         \* pdf_to_images_high_quality's result: page ids in order
  futures,        \* state of each future submitted by executor.map
  calls,          \* number of process_single_image calls per page
  finish_order,   \* pages in the order in which the workers finished them
  batch_inputs,   \* list(executor.map(...)) as far as it has been built
  idx,            \* position of the for loop over batch_inputs
  phase,          \* "next": about to call engine.generate, "stream": in async for
  open,           \* generation sessions submitted and not consumed to the end
  pending,        \* snapshots the current session has still to yield
  submitted,      \* pages of all sessions submitted, in order
  outputs_list,   \* number of outputs appended to outputs_list
  contents_det,   \* raw markdown, as blocks
  contents,       \* clean markdown, as blocks
  draw_images,    \* annotated images
  jdx,
  prev_len,
  emitted,        \* items yielded by stream_ocr_pdf_handle
  files,          \* artifacts written
  result,         \* <<>> or <<the dict returned>>
  final_text,     \* per page: text of the last snapshot with a completion
  any_eos,        \* per page: some snapshot of its trace holds the marker
  extending,      \* per page: each snapshot of its trace extends the previous
  ended,          \* pages whose stream the assembling loop consumed to the end
  engine_texts,   \* the texts a snapshot of engine.generate can hold
  crops,          \* sub-image files draw_bounding_boxes saved, with their page
  pieces,         \* the spans and plain runs a generated text is made of
  result_text,    \* a generated text: result_text of ocr, content of the PDF loop
  image_size,     \* <<width, height>> of the image the text was generated for
  page_jdx,       \* the jdx the page is rendered with
  applied,        \* the consumers of result_text that have run
  boxes,          \* what parse_detections returned
  result_image,   \* what draw_bounding_boxes drew and cropped
  page_md,        \* the clean markdown of the page
  display_text,   \* the "text" field of the /ocr response
  page_objects,   \* what is drawn on each image object of a rendered page
  requests,       \* two concurrent calls of ocr_pdf_handle: their positions
  disk            \* the files under OUTPUT_PATH written by those calls

vars == <<mode, SKIP_REPEAT, NUM_WORKERS, page_count, pc, exc, tmp_exists,
          tmp_file_path, images, futures, calls, finish_order, batch_inputs, idx,
          phase,
          open, pending, submitted, outputs_list, contents_det, contents,
          draw_images, jdx, prev_len, emitted, files, result, final_text,
          any_eos, extending, ended, engine_texts, crops, pieces, result_text,
          image_size, page_jdx, applied, boxes, result_image, page_md,
          display_text, page_objects, requests, disk>>

cfgVars == <<mode, SKIP_REPEAT, NUM_WORKERS, page_count, engine_texts>>
poolVars == <<futures, calls, finish_order, batch_inputs>>
genVars == <<idx, phase, open, pending, submitted, outputs_list>>
traceVars == <<final_text, any_eos, extending, ended>>
outVars == <<contents_det, contents, draw_images, jdx, crops, prev_len, emitted>>
endVars == <<files, result>>
pageVars == <<pieces, result_text, image_size, page_jdx, applied, boxes, result_image, page_md,
              display_text, page_objects>>
reqVars == <<requests, disk>>

\* what engine.generate can yield: output.outputs is empty or holds one text
Snapshots == {<<>>} \cup {<<t>> : t \in engine_texts}
Traces == SeqsUpTo(Snapshots, MaxSnaps)

Pages == 1..page_count
Exited == {"returned", "raised"}

\* ---- pure helpers ----

\* '<eos>' in content
HasEOS(content) == \E i \in DOMAIN content : content[i] = EOS

\* content.replace('<eos>', '')
StripEOS(content) == SelectSeq(content, LAMBDA t : t # EOS)

IsPrefix(s, t) == Len(s) <= Len(t) /\ SubSeq(t, 1, Len(s)) = s

\* ---- grounding text: tokens ----
\* A page text is a sequence of tokens.  The four grounding markers are one
\* token each, a whitespace character is one token, and a coordinate literal
\* that holds no marker and no whitespace is one token.
REF_O == "<|ref|>"
REF_C == "<|/ref|>"
DET_O == "<|det|>"
DET_C == "<|/det|>"
GroundingTokens == {REF_O, REF_C, DET_O, DET_C}

\* \s of the regular expressions and of str.strip
IsSpace(t) == t \in {" ", "\n"}

\* the coordinate literals of the modelled texts
FLAT == "[0,0,999,999]"
NESTED == "[[0,0,999,999]]"
TWO_BOXES == "[[63,500,999,999],[0,0,500,63]]"
SHORT_BOX == "[[0,0,999],[0,0,500,63]]"
NOT_A_LITERAL == "[abc]"
UNCLOSED == "[1,2"

\* what eval and ast.literal_eval make of a token: a list of four numbers,
\* a list of lists, or an exception
literal_value(tok) ==
  CASE tok = FLAT -> [kind |-> "flat", boxes |-> <<<<0, 0, 999, 999>>>>]
    [] tok = NESTED -> [kind |-> "nested", boxes |-> <<<<0, 0, 999, 999>>>>]
    [] tok = TWO_BOXES -> [kind |-> "nested", boxes |-> <<<<63, 500, 999, 999>>, <<0, 0, 500, 63>>>>]
    [] tok = SHORT_BOX -> [kind |-> "nested", boxes |-> <<<<0, 0, 999>>, <<0, 0, 500, 63>>>>]
    [] OTHER -> [kind |-> "error", boxes |-> <<>>]

\* the token starts with "[" / ends with "]"
StartsBracket(tok) == tok \in {FLAT, NESTED, TWO_BOXES, SHORT_BOX, NOT_A_LITERAL, UNCLOSED}
EndsBracket(tok) == tok \in {FLAT, NESTED, TWO_BOXES, SHORT_BOX, NOT_A_LITERAL}

RECURSIVE lstrip(_)
lstrip(s) == IF s # <<>> /\ IsSpace(Head(s)) THEN lstrip(Tail(s)) ELSE s

RECURSIVE rstrip(_)
rstrip(s) == IF s # <<>> /\ IsSpace(s[Len(s)]) THEN rstrip(SubSeq(s, 1, Len(s) - 1)) ELSE s

\* str.strip()
strip(s) == rstrip(lstrip(s))

\* eval / ast.literal_eval of a coordinate string: both skip surrounding
\* whitespace and fail on anything that is not one literal
eval_coords(s) ==
  IF Len(strip(s)) = 1 THEN literal_value(strip(s)[1]) ELSE [kind |-> "error", boxes |-> <<>>]

MinOf(S) == CHOOSE x \in S : \A y \in S : x <= y

\* position of the first token at or after p that is not whitespace
RECURSIVE skip_ws(_, _)
skip_ws(text, p) == IF p <= Len(text) /\ IsSpace(text[p]) THEN skip_ws(text, p + 1) ELSE p

\* ---- re_match ----
NoMatch == [to |-> 0, label |-> <<>>, coords |-> <<>>]

\* the pattern of re_match tried at position i: lazy label up to the first
\* "<|/ref|><|det|>", lazy coordinates up to the first "<|/det|>" after it
ref_pattern_at(text, i) ==
  LET RefEnds == {j \in (i + 1)..(Len(text) - 1) : text[j] = REF_C /\ text[j + 1] = DET_O}
  IN IF i > Len(text) \/ text[i] # REF_O \/ RefEnds = {} THEN NoMatch
     ELSE LET j == MinOf(RefEnds)
              DetEnds == {k \in (j + 2)..Len(text) : text[k] = DET_C}
          IN IF DetEnds = {} THEN NoMatch
             ELSE [to |-> MinOf(DetEnds),
                   label |-> SubSeq(text, i + 1, j - 1),
                   coords |-> SubSeq(text, j + 2, MinOf(DetEnds) - 1)]

\* re.findall(pattern, text, re.DOTALL) from position i on: tuples of
\* (whole match, label, coordinates), leftmost first, not overlapping
RECURSIVE findall_refs(_, _)
findall_refs(text, i) ==
  IF i > Len(text) THEN <<>>
  ELSE LET m == ref_pattern_at(text, i)
       IN IF m.to = 0 THEN findall_refs(text, i + 1)
          ELSE <<[full |-> SubSeq(text, i, m.to), label |-> m.label, coords |-> m.coords]>>
               \o findall_refs(text, m.to + 1)

\* '<|ref|>image<|/ref|>' in a_match[0]
IsImageMatch(full) ==
  \E i \in 1..(Len(full) - 2) : SubSeq(full, i, i + 2) = <<REF_O, "image", REF_C>>

\* re_match(text): matches, mathes_image, mathes_other
re_match(text) ==
  LET matches == findall_refs(text, 1)
      fulls == [k \in DOMAIN matches |-> matches[k].full]
  IN [matches |-> matches,
      mathes_image |-> SelectSeq(fulls, IsImageMatch),
      mathes_other |-> SelectSeq(fulls, LAMBDA f : ~IsImageMatch(f))]

\* ---- parse_detections ----

\* DET_BLOCK tried at position i with the label ending at the "<|/ref|>" of
\* position j: optional whitespace, "<|det|>", optional whitespace, lazy
\* coordinates from a "[" to the first "]" that optional whitespace and
\* "<|/det|>" follow.  0 if there is none, else <<s, e, k>>: coordinates from
\* s to e, the match ends at k.
det_tail(text, j) ==
  LET d == skip_ws(text, j + 1)
      s == skip_ws(text, d + 1)
      Ends == {e \in s..Len(text) :
                 /\ EndsBracket(text[e])
                 /\ skip_ws(text, e + 1) <= Len(text)
                 /\ text[skip_ws(text, e + 1)] = DET_C}
  IN IF d > Len(text) \/ text[d] # DET_O THEN <<>>
     ELSE IF s > Len(text) \/ ~StartsBracket(text[s]) \/ Ends = {} THEN <<>>
     ELSE <<s, MinOf(Ends), skip_ws(text, MinOf(Ends) + 1)>>

\* DET_BLOCK tried at position i: the label is lazy, so it ends at the first
\* "<|/ref|>" from which the rest of the pattern matches
det_block_at(text, i) ==
  LET LabelEnds == {j \in (i + 1)..Len(text) : text[j] = REF_C /\ det_tail(text, j) # <<>>}
  IN IF i > Len(text) \/ text[i] # REF_O \/ LabelEnds = {} THEN NoMatch
     ELSE LET j == MinOf(LabelEnds)
              t == det_tail(text, j)
          IN [to |-> t[3],
              label |-> SubSeq(text, i + 1, j - 1),
              coords |-> SubSeq(text, t[1], t[2])]

\* DET_BLOCK.finditer(text) from position i on
RECURSIVE finditer_det(_, _)
finditer_det(text, i) ==
  IF i > Len(text) THEN <<>>
  ELSE LET m == det_block_at(text, i)
       IN IF m.to = 0 THEN finditer_det(text, i + 1)
          ELSE <<[label |-> m.label, coords |-> m.coords]>> \o finditer_det(text, m.to + 1)

\* the normalized grid: coordinates run from 0 to GRID
GRID == 999

\* the (coordinate, dimension) pairs of the modelled inputs for which the
\* double r / 999 * d lies just below the integer r * d / 999
FloatBelow == {<<63, 999>>, <<63, 111>>}

\* int(r / 999 * d), r and d non-negative
denormalize_round(r, d) == (2 * r * d + GRID) \div (2 * GRID)
denormalize(r, d) ==
  IF <<r, d>> \in FloatBelow THEN (r * d) \div GRID - 1 ELSE (r * d) \div GRID

\* the four scaled corners of a box
scale_box(box, image_width, image_height) ==
  <<denormalize(box[1], image_width), denormalize(box[2], image_height),
    denormalize(box[3], image_width), denormalize(box[4], image_height)>>

\* "standardize to a list of lists": a list of four numbers is one box
box_coords_nested_only(parsed) == IF parsed.kind = "nested" THEN parsed.boxes ELSE <<>>
box_coords(parsed) == IF parsed.kind \in {"flat", "nested"} THEN parsed.boxes ELSE <<>>

\* the boxes one DET_BLOCK match appends
RECURSIVE det_boxes(_, _, _, _)
det_boxes(label, bs, image_width, image_height) ==
  IF bs = <<>> THEN <<>>
  ELSE (IF Len(Head(bs)) >= 4
        THEN <<[label |-> label, box |-> scale_box(Head(bs), image_width, image_height)]>>
        ELSE <<>>)
       \o det_boxes(label, Tail(bs), image_width, image_height)

RECURSIVE parse_blocks(_, _, _)
parse_blocks(ms, image_width, image_height) ==
  IF ms = <<>> THEN <<>>
  ELSE det_boxes(strip(Head(ms).label), box_coords(eval_coords(Head(ms).coords)),
                 image_width, image_height)
       \o parse_blocks(Tail(ms), image_width, image_height)

\* parse_detections(text, image_width, image_height)
parse_detections(text, image_width, image_height) ==
  parse_blocks(finditer_det(text, 1), image_width, image_height)

\* ---- clean_grounding_text ----

GROUNDING == "<|grounding|>"

MaxOf(S) == CHOOSE x \in S : \A y \in S : y <= x

\* the pattern of clean_grounding_text after a label that ends at the
\* "<|/ref|>" of position j: optional whitespace, "<|det|>", optional
\* whitespace, greedy coordinates from a "[" to the last "]" that optional
\* whitespace and "<|/det|>" follow.  0 if there is none, else the position
\* at which the match ends.
sub_tail(text, j) ==
  LET d == skip_ws(text, j + 1)
      s == skip_ws(text, d + 1)
      Ends == {e \in s..Len(text) :
                 /\ EndsBracket(text[e])
                 /\ skip_ws(text, e + 1) <= Len(text)
                 /\ text[skip_ws(text, e + 1)] = DET_C}
  IN IF d > Len(text) \/ text[d] # DET_O THEN 0
     ELSE IF s > Len(text) \/ ~StartsBracket(text[s]) \/ Ends = {} THEN 0
     ELSE skip_ws(text, MaxOf(Ends) + 1)

\* the pattern tried at position i: the label is lazy
sub_block_at(text, i) ==
  LET LabelEnds == {j \in (i + 1)..Len(text) : text[j] = REF_C /\ sub_tail(text, j) # 0}
  IN IF i > Len(text) \/ text[i] # REF_O \/ LabelEnds = {} THEN NoMatch
     ELSE [to |-> sub_tail(text, MinOf(LabelEnds)),
           label |-> SubSeq(text, i + 1, MinOf(LabelEnds) - 1),
           coords |-> <<>>]

\* re.sub(pattern, r"\1", text) from position i on
RECURSIVE sub_labels(_, _)
sub_labels(text, i) ==
  IF i > Len(text) THEN <<>>
  ELSE LET m == sub_block_at(text, i)
       IN IF m.to = 0 THEN <<text[i]>> \o sub_labels(text, i + 1)
          ELSE m.label \o sub_labels(text, m.to + 1)

\* clean_grounding_text(text)
clean_grounding_text(text) ==
  strip(SelectSeq(sub_labels(text, 1), LAMBDA t : t # GROUNDING))

\* ", ".join([b["label"] for b in boxes])
RECURSIVE join_labels(_)
join_labels(bs) ==
  IF bs = <<>> THEN <<>>
  ELSE IF Len(bs) = 1 THEN bs[1].label
  ELSE bs[1].label \o <<", ">> \o join_labels(Tail(bs))

\* ---- draw_bounding_boxes ----

\* "for points in points_list: x1, y1, x2, y2 = points": the boxes reached
\* before the first one that does not unpack into four values
RECURSIVE unpackable(_)
unpackable(bs) ==
  IF bs = <<>> \/ Len(Head(bs)) # 4 THEN <<>> ELSE <<Head(bs)>> \o unpackable(Tail(bs))

\* the boxes of one ref the loop body runs for: none if eval failed, none if
\* the list holds numbers (unpacking a number raises, the ref is skipped)
points_reached(parsed) == IF parsed.kind = "nested" THEN unpackable(parsed.boxes) ELSE <<>>

\* image.crop(...).save(...) writes a file unless the box is empty
crop_saved(b) == b[3] > b[1] /\ b[4] > b[2]

\* the loop over refs from ref i on, img_idx crops named so far: the boxes
\* drawn with their labels, and the crops "{jdx}_{img_idx}.jpg" attempted
RECURSIVE draw_refs(_, _, _, _, _, _)
draw_refs(refs, i, img_idx, image_width, image_height, j) ==
  IF i > Len(refs) THEN [drawn |-> <<>>, crops |-> <<>>]
  ELSE LET pts == points_reached(eval_coords(refs[i].coords))
           px == [k \in DOMAIN pts |-> scale_box(pts[k], image_width, image_height)]
           dr == [k \in DOMAIN pts |-> [label |-> refs[i].label, box |-> px[k]]]
           cs == IF refs[i].label = <<"image">>
                THEN [k \in DOMAIN pts |->
                        [name |-> <<j, img_idx + k - 1>>, ref |-> i,
                         box |-> px[k], saved |-> crop_saved(px[k])]]
                 ELSE <<>>
           rest == draw_refs(refs, i + 1, img_idx + Len(cs), image_width, image_height, j)
       IN [drawn |-> dr \o rest.drawn, crops |-> cs \o rest.crops]

\* draw_bounding_boxes(image, refs, jdx)
draw_bounding_boxes(image_width, image_height, refs, j) ==
  draw_refs(refs, 1, 0, image_width, image_height, j)

\* ---- image objects ----
\* An image object is named by where it was created; what has been drawn on
\* it is the sequence of boxes drawn so far.

\* image.copy(): a new object, named fresh
copy_in_place(obj, fresh) == obj
image_copy(obj, fresh) == fresh

\* number of boxes the loop of draw_bounding_boxes reaches in refs 1..n
RECURSIVE reached_upto(_, _)
reached_upto(refs, n) ==
  IF n = 0 THEN 0
  ELSE reached_upto(refs, n - 1) + Len(points_reached(eval_coords(refs[n].coords)))

\* number of boxes drawn when crop c is taken: a box is cropped before it is
\* drawn, after all boxes of earlier refs and the earlier boxes of its ref
drawn_before(refs, cs, c) ==
  reached_upto(refs, cs[c].ref - 1)
    + Cardinality({e \in DOMAIN cs : e < c /\ cs[e].ref = cs[c].ref})

\* lines 496-500 and 320-383 on the image objects: image_draw = img.copy(),
\* img_draw = image.copy(), every rectangle, caption and the overlay go to
\* img_draw, every crop is taken from image (the handler's image_draw)
render_objects(refs, image_width, image_height, j) ==
  LET image_draw == image_copy("img", "image_draw")
      img_draw == image_copy(image_draw, "img_draw")
      res == draw_bounding_boxes(image_width, image_height, refs, j)
      all == [k \in DOMAIN res.drawn |-> res.drawn[k].box]
      on(obj) == IF obj = img_draw THEN all ELSE <<>>
  IN [img |-> on("img"),
      image_draw |-> on(image_draw),
      img_draw |-> on(img_draw),
      crops |-> [c \in DOMAIN res.crops |->
                   IF image_draw = img_draw
                   THEN SubSeq(all, 1, drawn_before(refs, res.crops, c))
                   ELSE <<>>]]

\* ---- the clean markdown of a page ----

\* str.replace(pat, rep), pat not empty
RECURSIVE replace(_, _, _)
replace(s, pat, rep) ==
  IF Len(s) < Len(pat) THEN s
  ELSE IF SubSeq(s, 1, Len(pat)) = pat
       THEN rep \o replace(SubSeq(s, Len(pat) + 1, Len(s)), pat, rep)
       ELSE <<Head(s)>> \o replace(Tail(s), pat, rep)

\* '![](images/' + str(jdx) + '_' + str(idx) + '.jpg)\n'
embed_name(j, k) == "![](images/" \o ToString(j) \o "_" \o ToString(k) \o ".jpg)"
embed(j, k) == <<embed_name(j, k), "\n">>

\* for idx, a_match_image in enumerate(matches_images): content.replace(...)
RECURSIVE replace_images(_, _, _, _)
replace_images(content, imgs, k, j) ==
  IF k > Len(imgs) THEN content
  ELSE replace_images(replace(content, imgs[k], embed(j, k - 1)), imgs, k + 1, j)

NL == "\n"

\* the chain of replacements applied once per other match
tidy(content) ==
  replace(replace(replace(replace(content,
      <<"\\coloneqq">>, <<":=">>),
      <<"\\eqqcolon">>, <<"=:">>),
      <<NL, NL, NL, NL>>, <<NL, NL>>),
      <<NL, NL, NL>>, <<NL, NL>>)

\* for idx, a_match_other in enumerate(mathes_other): content.replace(...)...
RECURSIVE replace_others(_, _)
replace_others(content, others) ==
  IF others = <<>> THEN content
  ELSE replace_others(tidy(replace(content, Head(others), <<>>)), Tail(others))

\* the finally block: unlink the temporary file if its path is known
finally_unlink(path, exists) == IF path # "None" /\ exists THEN FALSE ELSE exists

\* process_single_image(image, prompt)
process_single_image(image, prompt) ==
  [prompt |-> IF \E i \in DOMAIN prompt : prompt[i] = "<image>"
              THEN prompt ELSE <<"<image>">> \o prompt,
   image |-> image]

\* executor.map hands results back in submission order: the next result the
\* caller waits for is the one after those already collected
map_next_completed(collected, futs) ==
  IF \E i \in DOMAIN futs : futs[i] = "done" /\ \A k \in DOMAIN collected : collected[k].image # i
  THEN CHOOSE i \in DOMAIN futs : futs[i] = "done" /\ \A k \in DOMAIN collected : collected[k].image # i
  ELSE Len(collected) + 1
map_next(collected, futs) == Len(collected) + 1

Running == {i \in DOMAIN futures : futures[i] = "running"}
Waiting == {i \in DOMAIN futures : futures[i] = "pending"}

\* width and height of a rasterized page, in pixels
PageSize == <<1000, 500>>

\* ---- initial state: the handler has been called ----
HandlerInit ==
  /\ pc = "start"
  /\ exc = "none"
  /\ tmp_exists = FALSE
  /\ tmp_file_path = "None"
  /\ images = <<>>
  /\ futures = <<>>
  /\ calls = <<>>
  /\ finish_order = <<>>
  /\ batch_inputs = <<>>
  /\ idx = 1
  /\ phase = "next"
  /\ open = {}
  /\ pending = <<>>
  /\ submitted = <<>>
  /\ outputs_list = 0
  /\ contents_det = <<>>
  /\ contents = <<>>
  /\ draw_images = <<>>
  /\ jdx = 0
  /\ prev_len = 0
  /\ emitted = <<>>
  /\ files = {}
  /\ result = <<>>
  /\ final_text = <<>>
  /\ any_eos = <<>>
  /\ extending = <<>>
  /\ ended = {}
  /\ crops = <<>>

\* the image objects of a page before anything is drawn: images[i], the copy
\* image_draw of the handler, the copy img_draw of draw_bounding_boxes, and
\* what each saved crop shows
Undrawn == [img |-> <<>>, image_draw |-> <<>>, img_draw |-> <<>>, crops |-> <<>>]

\* no single text is being looked at
TextIdle ==
  /\ pieces = <<>>
  /\ result_text = <<>>
  /\ image_size = PageSize
  /\ page_jdx = 0
  /\ applied = {}
  /\ boxes = <<>>
  /\ result_image = [drawn |-> <<>>, crops |-> <<>>]
  /\ page_md = <<>>
  /\ display_text = <<>>
  /\ page_objects = Undrawn

\* the handler runs alone
OneRequest ==
  /\ requests = <<>>
  /\ disk = <<>>

Init ==
  /\ mode \in {"pdf", "stream", "chat"}
  /\ SKIP_REPEAT \in BOOLEAN
  /\ NUM_WORKERS \in 1..MaxWorkers
  /\ page_count \in IF mode = "chat" THEN {0} ELSE 0..MaxPages
  /\ engine_texts = Texts
  /\ HandlerInit
  /\ TextIdle
  /\ OneRequest

\* leaving through the finally block with exception e
Raise(e) ==
  /\ pc' = "raised"
  /\ exc' = e
  /\ tmp_exists' = finally_unlink(tmp_file_path, tmp_exists)
  /\ UNCHANGED tmp_file_path

\* ---- temporary file and rasterization ----

\* NamedTemporaryFile(delete=False), write, tmp_file_path = tmp_file.name
WriteTmp ==
  /\ pc = "start"
  /\ pc' = "raster"
  /\ tmp_exists' = TRUE
  /\ tmp_file_path' = "tmp.pdf"
  /\ UNCHANGED <<cfgVars, pageVars, reqVars, exc, images, poolVars, genVars, traceVars, outVars, endVars>>

\* tmp_file.write raises: the file was created, the with block closes it
\* (delete=False), tmp_file_path is still None when the finally block runs
WriteTmpFail ==
  /\ pc = "start"
  /\ pc' = "raised"
  /\ exc' = "OSError:write"
  /\ tmp_exists' = finally_unlink(tmp_file_path, TRUE)
  /\ UNCHANGED <<cfgVars, pageVars, reqVars, tmp_file_path, images, poolVars, genVars, traceVars, outVars, endVars>>

\* pdf_to_images_high_quality, then executor.map submits one future per page
Rasterize ==
  /\ pc = "raster"
  /\ pc' = "pool"
  /\ images' = [i \in Pages |-> i]
  /\ futures' = [i \in Pages |-> "pending"]
  /\ calls' = [i \in Pages |-> 0]
  /\ UNCHANGED <<cfgVars, pageVars, reqVars, exc, tmp_exists, tmp_file_path, finish_order, batch_inputs, genVars, traceVars, outVars, endVars>>

\* fitz.open raises on bytes that are not a PDF
RasterizeFail ==
  /\ pc = "raster"
  /\ Raise("DocumentParseError")
  /\ UNCHANGED <<cfgVars, pageVars, reqVars, images, poolVars, genVars, traceVars, outVars, endVars>>

\* ---- the preprocessing pool ----

\* a free worker takes the oldest queued work item
WorkerStart ==
  /\ pc = "pool"
  /\ Cardinality(Running) < NUM_WORKERS
  /\ Waiting # {}
  /\ LET i == CHOOSE w \in Waiting : \A v \in Waiting : w <= v IN
       /\ futures' = [futures EXCEPT ![i] = "running"]
       /\ calls' = [calls EXCEPT ![i] = @ + 1]
  /\ UNCHANGED <<cfgVars, pageVars, reqVars, pc, exc, tmp_exists, tmp_file_path, images, finish_order, batch_inputs, genVars, traceVars, outVars, endVars>>

\* process_single_image returns, in any order among the running workers
WorkerFinish ==
  /\ pc \in {"pool", "pool_abort"}
  /\ \E i \in Running :
       /\ futures' = [futures EXCEPT ![i] = "done"]
       /\ finish_order' = Append(finish_order, i)
  /\ UNCHANGED <<cfgVars, pageVars, reqVars, pc, exc, tmp_exists, tmp_file_path, images, calls, batch_inputs, genVars, traceVars, outVars, endVars>>

\* process_single_image raises
WorkerFail ==
  /\ pc \in {"pool", "pool_abort"}
  /\ \E i \in Running :
       /\ futures' = [futures EXCEPT ![i] = "failed"]
       /\ finish_order' = Append(finish_order, i)
  /\ UNCHANGED <<cfgVars, pageVars, reqVars, pc, exc, tmp_exists, tmp_file_path, images, calls, batch_inputs, genVars, traceVars, outVars, endVars>>

\* list(...) takes the next result of executor.map
Collect ==
  /\ pc = "pool"
  /\ LET i == map_next(batch_inputs, futures) IN
       /\ i \in DOMAIN futures
       /\ futures[i] = "done"
       /\ batch_inputs' = Append(batch_inputs, process_single_image(images[i], RequestPrompt))
  /\ UNCHANGED <<cfgVars, pageVars, reqVars, pc, exc, tmp_exists, tmp_file_path, images, futures, calls, finish_order, genVars, traceVars, outVars, endVars>>

\* the next result is an exception: executor.map cancels the futures that
\* have not started, and the with block waits for the running ones
CollectRaise ==
  /\ pc = "pool"
  /\ LET i == map_next(batch_inputs, futures) IN
       /\ i \in DOMAIN futures
       /\ futures[i] = "failed"
  /\ futures' = [i \in DOMAIN futures |-> IF futures[i] = "pending" THEN "cancelled" ELSE futures[i]]
  /\ pc' = "pool_abort"
  /\ UNCHANGED <<cfgVars, pageVars, reqVars, exc, tmp_exists, tmp_file_path, images, calls, finish_order, batch_inputs, genVars, traceVars, outVars, endVars>>

\* executor shutdown done, the exception leaves the handler
PoolAbortExit ==
  /\ pc = "pool_abort"
  /\ Running = {}
  /\ Raise("PagePreprocessError")
  /\ UNCHANGED <<cfgVars, pageVars, reqVars, images, poolVars, genVars, traceVars, outVars, endVars>>

\* every result collected, the with block of the executor is left
PoolExit ==
  /\ pc = "pool"
  /\ Len(batch_inputs) = Len(images)
  /\ pc' = IF mode = "pdf" THEN "gen1" ELSE "setup"
  /\ UNCHANGED <<cfgVars, pageVars, reqVars, exc, tmp_exists, tmp_file_path, images, poolVars, genVars, traceVars, outVars, endVars>>

\* ---- generation sessions ----

\* for batch_input in batch_inputs: async for output in engine.generate(...):
\* the next engine.generate call is reached only when the async for of the
\* previous one has finished
can_submit_concurrent(ph) == ph \in {"next", "stream"}
can_submit(ph) == ph = "next"

\* zip(batch_inputs, images) stops at the shorter list
LoopLen == IF pc = "gen2" /\ Len(images) < Len(batch_inputs) THEN Len(images) ELSE Len(batch_inputs)

Completions(tr) == SelectSeq(tr, LAMBDA s : s # <<>>)

\* output.outputs[0].text of the last snapshot that has a completion
LastText(tr) == IF Completions(tr) = <<>> THEN <<>> ELSE Completions(tr)[Len(Completions(tr))][1]

Extending(tr) == \A k \in 1..(Len(Completions(tr)) - 1) : IsPrefix(Completions(tr)[k][1], Completions(tr)[k + 1][1])

\* engine.generate(batch_input, sampling_params, request_id): a session is
\* submitted; the engine will yield the snapshots of some trace
Submit ==
  /\ pc \in {"gen1", "gen2"}
  /\ can_submit(phase)
  /\ idx <= LoopLen
  /\ \E tr \in Traces :
       LET p == batch_inputs[idx].image IN
       /\ pending' = tr
       /\ IF pc = "gen2"
          THEN /\ final_text' = [final_text EXCEPT ![p] = LastText(tr)]
               /\ any_eos' = [any_eos EXCEPT ![p] = \E k \in DOMAIN tr : tr[k] # <<>> /\ HasEOS(tr[k][1])]
               /\ extending' = [extending EXCEPT ![p] = Extending(tr)]
          ELSE UNCHANGED <<final_text, any_eos, extending>>
  /\ open' = open \cup {Len(submitted) + 1}
  /\ submitted' = Append(submitted, batch_inputs[idx].image)
  /\ phase' = "stream"
  /\ UNCHANGED <<cfgVars, pageVars, reqVars, pc, exc, tmp_exists, tmp_file_path, images, poolVars, idx, outputs_list, ended, outVars, endVars>>

\* first loop of ocr_pdf_handle: outputs_list.append(output)
CollectOutput ==
  /\ pc = "gen1"
  /\ phase = "stream"
  /\ pending # <<>>
  /\ pending' = Tail(pending)
  /\ outputs_list' = outputs_list + 1
  /\ UNCHANGED <<cfgVars, pageVars, reqVars, pc, exc, tmp_exists, tmp_file_path, images, poolVars, idx, phase, open, submitted, traceVars, outVars, endVars>>

\* the stream of the current session is exhausted: the async for ends
EngineEnd ==
  /\ pc \in {"gen1", "gen2"}
  /\ phase = "stream"
  /\ pending = <<>>
  /\ open' = open \ {Len(submitted)}
  /\ phase' = "next"
  /\ idx' = idx + 1
  /\ ended' = IF pc = "gen2" THEN ended \cup {batch_inputs[idx].image} ELSE ended
  /\ UNCHANGED <<cfgVars, pageVars, reqVars, pc, exc, tmp_exists, tmp_file_path, images, poolVars, pending, submitted, outputs_list, final_text, any_eos, extending, outVars, endVars>>

\* engine.generate raises while the handler waits for a snapshot
EngineRaise ==
  /\ pc \in {"gen1", "gen2"}
  /\ phase = "stream"
  /\ Raise("EngineError")
  /\ UNCHANGED <<cfgVars, pageVars, reqVars, images, poolVars, genVars, traceVars, outVars, endVars>>

\* the request is cancelled while the handler waits for a snapshot
Cancel ==
  /\ pc \in {"gen1", "gen2"}
  /\ phase = "stream"
  /\ Raise("CancelledError")
  /\ UNCHANGED <<cfgVars, pageVars, reqVars, images, poolVars, genVars, traceVars, outVars, endVars>>

\* end of the first loop of ocr_pdf_handle
LoopExit1 ==
  /\ pc = "gen1"
  /\ phase = "next"
  /\ idx > LoopLen
  /\ pc' = "setup"
  /\ UNCHANGED <<cfgVars, pageVars, reqVars, exc, tmp_exists, tmp_file_path, images, poolVars, genVars, traceVars, outVars, endVars>>

\* os.makedirs, the artifact paths, contents_det = '', contents = '',
\* draw_images = [], jdx = 0
Setup ==
  /\ pc = "setup"
  /\ pc' = "gen2"
  /\ idx' = 1
  /\ contents_det' = <<>>
  /\ contents' = <<>>
  /\ draw_images' = <<>>
  /\ jdx' = 0
  /\ final_text' = [i \in DOMAIN images |-> <<>>]
  /\ any_eos' = [i \in DOMAIN images |-> FALSE]
  /\ extending' = [i \in DOMAIN images |-> TRUE]
  /\ UNCHANGED <<cfgVars, pageVars, reqVars, exc, tmp_exists, tmp_file_path, images, poolVars, phase, open, pending, submitted, outputs_list, ended, crops, prev_len, emitted, endVars>>

\* os.makedirs raises
SetupFail ==
  /\ pc = "setup"
  /\ Raise("OSError:makedirs")
  /\ UNCHANGED <<cfgVars, pageVars, reqVars, images, poolVars, genVars, traceVars, outVars, endVars>>

\* ---- the assembling loop of ocr_pdf_handle ----

\* the page's output is dropped: no end marker and SKIP_REPEAT
discard_inverted(content, skip) == ~HasEOS(content) /\ ~skip
discard(content, skip) == ~HasEOS(content) /\ skip

\* contents_det += ..., contents += ..., draw_images.append(...)
accumulate_front(acc, block) == <<block>> \o acc
accumulate(acc, block) == Append(acc, block)

\* the sub-images process_image_with_refs saves for the page image img
page_crops(content, img, j) ==
  LET cs == draw_bounding_boxes(PageSize[1], PageSize[2], re_match(content).matches, j).crops
  IN [k \in DOMAIN cs |-> [name |-> cs[k].name, page |-> img, saved |-> cs[k].saved]]

\* lines 498-510: image matches become embeds, other matches are removed
clean_page(content, j) ==
  replace_others(replace_images(content, re_match(content).mathes_image, 1, j),
                 re_match(content).mathes_other)

\* one iteration of the async for body of the second loop
PageSnapshot ==
  /\ pc = "gen2"
  /\ mode = "pdf"
  /\ phase = "stream"
  /\ pending # <<>>
  /\ pending' = Tail(pending)
  /\ LET output == Head(pending)
         p == batch_inputs[idx].image
         img == images[idx]
     IN IF output = <<>> \/ discard(output[1], SKIP_REPEAT)
        THEN UNCHANGED <<contents_det, contents, draw_images, jdx, crops>>
        ELSE LET content == StripEOS(output[1]) IN
             /\ contents_det' = accumulate(contents_det, [page |-> p, text |-> content])
             /\ draw_images' = accumulate(draw_images, [page |-> img, jdx |-> jdx])
             /\ crops' = crops \o page_crops(content, img, jdx)
             /\ contents' = accumulate(contents, [page |-> p, text |-> clean_page(content, jdx)])
             /\ jdx' = jdx + 1
  /\ UNCHANGED <<cfgVars, pageVars, reqVars, pc, exc, tmp_exists, tmp_file_path, images, poolVars, idx, phase, open, submitted, outputs_list, traceVars, prev_len, emitted, endVars>>

\* ---- the loop of stream_ocr_pdf_handle ----

\* full_text[prev_len:]
delta_whole(full_text, prev) == full_text
delta_of(full_text, prev) == SubSeq(full_text, prev + 1, Len(full_text))

Chunk(kind, p, content) == [kind |-> kind, page |-> p, content |-> content]

\* one iteration of the async for body: the delta is yielded, then line 595
\* reads the local variable content, which is never assigned before
StreamSnapshot ==
  /\ pc = "gen2"
  /\ mode = "stream"
  /\ phase = "stream"
  /\ pending # <<>>
  /\ pending' = Tail(pending)
  /\ LET output == Head(pending)
         p == batch_inputs[idx].image
     IN IF output = <<>>
        THEN UNCHANGED <<pc, exc, tmp_exists, tmp_file_path, prev_len, emitted>>
        ELSE LET delta == delta_of(output[1], prev_len) IN
             /\ prev_len' = Len(output[1])
             /\ emitted' = IF delta # <<>> THEN Append(emitted, Chunk("delta", p, delta)) ELSE emitted
             /\ Raise("UnboundLocalError")
  /\ UNCHANGED <<cfgVars, pageVars, reqVars, images, poolVars, idx, phase, open, submitted, outputs_list, traceVars, contents_det, contents, draw_images, jdx, crops, endVars>>

\* end of the loop over zip(batch_inputs, images)
LoopExit2 ==
  /\ pc = "gen2"
  /\ phase = "next"
  /\ idx > LoopLen
  /\ pc' = "write_det"
  /\ UNCHANGED <<cfgVars, pageVars, reqVars, exc, tmp_exists, tmp_file_path, images, poolVars, genVars, traceVars, outVars, endVars>>

\* ---- persistence ----

\* with open(mmd_det_path, 'w') as afile: afile.write(contents_det)
PersistDet ==
  /\ pc = "write_det"
  /\ pc' = "write_md"
  /\ files' = files \cup {"det_md"}
  /\ UNCHANGED <<cfgVars, pageVars, reqVars, exc, tmp_exists, tmp_file_path, images, poolVars, genVars, traceVars, outVars, result>>

\* with open(mmd_path, 'w') as afile: afile.write(contents)
PersistMd ==
  /\ pc = "write_md"
  /\ pc' = "write_pdf"
  /\ files' = files \cup {"md"}
  /\ UNCHANGED <<cfgVars, pageVars, reqVars, exc, tmp_exists, tmp_file_path, images, poolVars, genVars, traceVars, outVars, result>>

\* pil_to_pdf_img2pdf: nothing for an empty list; a failure of img2pdf.convert
\* or of the write is printed and swallowed
pil_to_pdf_img2pdf ==
  /\ pc = "write_pdf"
  /\ pc' = "return"
  /\ \E ok \in BOOLEAN :
       files' = IF draw_images # <<>> /\ ok THEN files \cup {"pdf"} ELSE files
  /\ UNCHANGED <<cfgVars, pageVars, reqVars, exc, tmp_exists, tmp_file_path, images, poolVars, genVars, traceVars, outVars, result>>

\* open or write of a markdown file raises, or img.save raises
PersistFail ==
  /\ \/ pc \in {"write_det", "write_md"}
     \/ pc = "write_pdf" /\ draw_images # <<>>
  /\ Raise("OSError:persist")
  /\ UNCHANGED <<cfgVars, pageVars, reqVars, images, poolVars, genVars, traceVars, outVars, endVars>>

\* ocr_pdf_handle returns its dict; stream_ocr_pdf_handle yields the stop
\* chunk and [DONE]; then the finally block
Return ==
  /\ pc = "return"
  /\ pc' = "returned"
  /\ tmp_exists' = finally_unlink(tmp_file_path, tmp_exists)
  /\ IF mode = "pdf"
     THEN /\ result' = <<[code |-> 200, success |-> TRUE, images |-> Len(images),
                          text |-> contents, raw_text |-> contents_det]>>
          /\ UNCHANGED emitted
     ELSE /\ emitted' = emitted \o <<Chunk("stop", 0, <<>>), Chunk("[DONE]", 0, <<>>)>>
          /\ UNCHANGED result
  /\ UNCHANGED <<cfgVars, pageVars, reqVars, exc, tmp_file_path, images, poolVars, genVars, traceVars, contents_det, contents, draw_images, jdx, crops, prev_len, files>>

\* ---- stream_response: a streamed chat completion on an image ----

\* prev_len = 0; async for output in engine.generate(...)
ChatSubmit ==
  /\ mode = "chat"
  /\ pc = "start"
  /\ pc' = "chat"
  /\ \E tr \in Traces : pending' = tr
  /\ open' = {Len(submitted) + 1}
  /\ submitted' = Append(submitted, 0)
  /\ phase' = "stream"
  /\ prev_len' = 0
  /\ UNCHANGED <<cfgVars, pageVars, reqVars, exc, tmp_exists, tmp_file_path, images, poolVars, idx,
                 outputs_list, traceVars, contents_det, contents, draw_images, jdx, crops,
                 emitted, endVars>>

\* one iteration of the async for of stream_response
ChatSnapshot ==
  /\ pc = "chat"
  /\ pending # <<>>
  /\ pending' = Tail(pending)
  /\ LET output == Head(pending)
     IN IF output = <<>>
        THEN UNCHANGED <<prev_len, emitted>>
        ELSE LET delta == delta_of(output[1], prev_len) IN
             /\ prev_len' = Len(output[1])
             /\ emitted' = IF delta # <<>> THEN Append(emitted, Chunk("delta", 0, delta)) ELSE emitted
  /\ UNCHANGED <<cfgVars, pageVars, reqVars, pc, exc, tmp_exists, tmp_file_path, images, poolVars, idx,
                 phase, open, submitted, outputs_list, traceVars, contents_det, contents,
                 draw_images, jdx, crops, endVars>>

\* the stream is exhausted: the stop chunk, then "data: [DONE]"
ChatEnd ==
  /\ pc = "chat"
  /\ pending = <<>>
  /\ pc' = "returned"
  /\ open' = {}
  /\ phase' = "next"
  /\ emitted' = emitted \o <<Chunk("stop", 0, <<>>), Chunk("[DONE]", 0, <<>>)>>
  /\ UNCHANGED <<cfgVars, pageVars, reqVars, exc, tmp_exists, tmp_file_path, images, poolVars, idx,
                 pending, submitted, outputs_list, traceVars, contents_det, contents,
                 draw_images, jdx, crops, prev_len, endVars>>

\* engine.generate raises while stream_response waits for a snapshot
ChatRaise ==
  /\ pc = "chat"
  /\ pc' = "raised"
  /\ exc' = "EngineError"
  /\ UNCHANGED <<cfgVars, pageVars, reqVars, tmp_exists, tmp_file_path, images, poolVars, genVars,
                 traceVars, outVars, endVars>>

Next ==
  \/ WriteTmp
  \/ WriteTmpFail
  \/ Rasterize
  \/ RasterizeFail
  \/ WorkerStart
  \/ WorkerFinish
  \/ WorkerFail
  \/ Collect
  \/ CollectRaise
  \/ PoolAbortExit
  \/ PoolExit
  \/ Submit
  \/ CollectOutput
  \/ EngineEnd
  \/ EngineRaise
  \/ Cancel
  \/ LoopExit1
  \/ Setup
  \/ SetupFail
  \/ PageSnapshot
  \/ StreamSnapshot
  \/ LoopExit2
  \/ PersistDet
  \/ PersistMd
  \/ pil_to_pdf_img2pdf
  \/ PersistFail
  \/ Return
  \/ ChatSubmit
  \/ ChatSnapshot
  \/ ChatEnd
  \/ ChatRaise

Spec == Init /\ [][Next]_vars

\* ---- the PDF handlers on pages that hold an image region ----

\* a page text with one image-labeled span, finished by the end marker, and
\* a text without the marker
CropTexts == {<<"a">>, <<REF_O, "image", REF_C, DET_O, NESTED, DET_C, EOS>>}

InitCrops ==
  /\ mode \in {"pdf", "stream", "chat"}
  /\ SKIP_REPEAT \in BOOLEAN
  /\ NUM_WORKERS \in 1..MaxWorkers
  /\ page_count \in IF mode = "chat" THEN {0} ELSE 0..MaxPages
  /\ engine_texts = CropTexts
  /\ HandlerInit
  /\ TextIdle
  /\ OneRequest

SpecCrops == InitCrops /\ [][Next]_vars

\* ---- one generated text and its consumers ----
\* The text of one image or page, built from spans and plain runs, is handed
\* to parse_detections (the /ocr handler) and to the page body of the PDF
\* loop (re_match, draw_bounding_boxes and the clean-markdown replacements).

MaxPieces == 2

\* "<|ref|>LABEL<|/ref|><|det|>COORDS<|/det|>"
Span(label, coords) == <<REF_O>> \o label \o <<REF_C, DET_O, coords, DET_C>>

\* the same with a blank between "<|/ref|>" and "<|det|>"
SpacedSpan(label, coords) == <<REF_O>> \o label \o <<REF_C, " ", DET_O, coords, DET_C>>

PlainRun == <<"x">>

\* a math escape, a run of three newlines, the grounding-mode marker
MathEscape == <<"\\coloneqq">>
BlankLines == <<NL, NL, NL>>
GroundingMark == <<GROUNDING>>
LoneRef == <<REF_O, "x", REF_C>>

\* the spans whose coordinates both eval and ast.literal_eval read as boxes
\* of four numbers
WellFormedSpans ==
  {Span(<<"title">>, NESTED), Span(<<"title">>, FLAT), Span(<<" ", "title", " ">>, FLAT),
   Span(<<"image">>, NESTED), Span(<<"image">>, TWO_BOXES)}

\* the spans whose coordinate literal fails to parse
MalformedSpans ==
  {Span(<<"title">>, NOT_A_LITERAL), Span(<<"title">>, UNCLOSED),
   Span(<<"image">>, NOT_A_LITERAL)}

TextPieces ==
  WellFormedSpans \cup MalformedSpans
    \cup {PlainRun, LoneRef, Span(<<"title">>, SHORT_BOX), SpacedSpan(<<"title">>, NESTED)}
    \cup {MathEscape, BlankLines, GroundingMark}

RECURSIVE Flatten(_)
Flatten(ps) == IF ps = <<>> THEN <<>> ELSE Head(ps) \o Flatten(Tail(ps))

\* image.size / orig_w, orig_h
ImageSizes == {<<999, 999>>, <<111, 1000>>, <<1000, 500>>}

InitText ==
  /\ mode = "ocr"
  /\ SKIP_REPEAT = FALSE
  /\ NUM_WORKERS = 1
  /\ page_count = 0
  /\ engine_texts = {}
  /\ HandlerInit
  /\ pieces \in SeqsUpTo(TextPieces, MaxPieces)
  /\ result_text = Flatten(pieces)
  /\ image_size \in ImageSizes
  /\ page_jdx \in 0..1
  /\ applied = {}
  /\ boxes = <<>>
  /\ result_image = [drawn |-> <<>>, crops |-> <<>>]
  /\ page_md = <<>>
  /\ display_text = <<>>
  /\ page_objects = Undrawn
  /\ OneRequest

\* ocr: boxes = parse_detections(result_text, orig_w, orig_h) if the text
\* holds "<|det|>" or "<|ref|>"; display_text = clean_grounding_text(...),
\* or the labels of the boxes if that is empty
OcrBoxes ==
  /\ mode = "ocr"
  /\ "parse_detections" \notin applied
  /\ applied' = applied \cup {"parse_detections"}
  /\ boxes' = IF \E i \in DOMAIN result_text : result_text[i] \in {DET_O, REF_O}
              THEN parse_detections(result_text, image_size[1], image_size[2])
              ELSE <<>>
  /\ display_text' = IF clean_grounding_text(result_text) = <<>> /\ boxes' # <<>>
                     THEN join_labels(boxes')
                     ELSE clean_grounding_text(result_text)
  /\ UNCHANGED <<cfgVars, reqVars, pc, exc, tmp_exists, tmp_file_path, images, poolVars,
                 genVars, traceVars, outVars, endVars, pieces, result_text, image_size, page_jdx,
                 result_image, page_md, page_objects>>

\* the page body of ocr_pdf_handle on the same text: re_match,
\* process_image_with_refs, the two replacement loops
RenderPage ==
  /\ mode = "ocr"
  /\ "render" \notin applied
  /\ applied' = applied \cup {"render"}
  /\ result_image' = draw_bounding_boxes(image_size[1], image_size[2],
                                         re_match(result_text).matches, page_jdx)
  /\ page_md' = clean_page(result_text, page_jdx)
  /\ page_objects' = render_objects(re_match(result_text).matches,
                                    image_size[1], image_size[2], page_jdx)
  /\ UNCHANGED <<cfgVars, reqVars, pc, exc, tmp_exists, tmp_file_path, images, poolVars,
                 genVars, traceVars, outVars, endVars, pieces, result_text, image_size, page_jdx,
                 boxes, display_text>>

NextText == OcrBoxes \/ RenderPage

SpecText == InitText /\ [][NextText]_vars

\* ---- two document requests served by one process ----
\* ocr_pdf_handle is a coroutine: between two awaits of engine.generate its
\* code runs without interruption, at an await another request may run.
\* Each page's generation is taken to have one contributing snapshot, the
\* final text with the end marker.

Requests == 1..2

ImagePage(coords) == <<REF_O, "image", REF_C, DET_O, coords, DET_C, EOS>>
PageTexts == {<<"a", EOS>>, ImagePage(NESTED), ImagePage(TWO_BOXES)}
Documents == UNION {[1..n -> PageTexts] : n \in 1..MaxPages}

\* request_id = f"pdfocr-{uuid.uuid4().hex[:8]}": taken to differ between calls
request_id(r) == r

\* f"{OUTPUT_PATH}/images/{jdx}_{img_idx}.jpg"
crop_path(name) == [dir |-> "images", stem |-> name, ext |-> ".jpg"]
\* output_path + '/' + request_id + suffix
request_path(id, suffix) == [dir |-> "", stem |-> <<id>>, ext |-> suffix]

NoRequest == [pc |-> "idle", request_id |-> 0, pages |-> <<>>, pos |-> 0, jdx |-> 0,
              contents_det |-> <<>>, contents |-> <<>>, draw_images |-> <<>>]

\* a write of one file: the path, the request that wrote it, the page of that
\* request the content was taken from (0 for the files of the whole document)
FileWrite(path, r, p) == [path |-> path, owner |-> r, page |-> p]

\* the crops of page p of request r that cropped.save writes
crop_writes(r, content, p, j) ==
  LET cs == SelectSeq(page_crops(content, p, j), LAMBDA c : c.saved)
  IN [k \in DOMAIN cs |-> FileWrite(crop_path(cs[k].name), r, p)]

twoFrame == <<cfgVars, pageVars, pc, exc, tmp_exists, tmp_file_path, images, poolVars,
              genVars, traceVars, outVars, endVars>>

InitTwo ==
  /\ mode = "requests"
  /\ SKIP_REPEAT = TRUE
  /\ NUM_WORKERS = 1
  /\ page_count = 0
  /\ engine_texts = {}
  /\ HandlerInit
  /\ TextIdle
  /\ requests = [r \in Requests |-> NoRequest]
  /\ disk = <<>>

\* lines 439-465: the call runs up to the first await of the first loop
Accept(r) ==
  /\ mode = "requests"
  /\ requests[r].pc = "idle"
  /\ \E doc \in Documents :
       requests' = [requests EXCEPT ![r] = [NoRequest EXCEPT !.pc = "gen1",
                                                            !.request_id = request_id(r),
                                                            !.pages = doc]]
  /\ UNCHANGED <<twoFrame, disk>>

\* lines 466-483: the first loop is drained, the paths are formed, jdx = 0
Drained(r) ==
  /\ mode = "requests"
  /\ requests[r].pc = "gen1"
  /\ requests' = [requests EXCEPT ![r].pc = "gen2", ![r].jdx = 0]
  /\ UNCHANGED <<twoFrame, disk>>

\* lines 484-514: the final snapshot of the next page is rendered
RenderNext(r) ==
  /\ mode = "requests"
  /\ requests[r].pc = "gen2"
  /\ requests[r].pos < Len(requests[r].pages)
  /\ LET q == requests[r]
         p == q.pos + 1
         content == StripEOS(q.pages[p])
     IN /\ disk' = disk \o crop_writes(r, content, p, q.jdx)
        /\ requests' = [requests EXCEPT
             ![r].pos = p,
             ![r].contents_det = accumulate(q.contents_det, content),
             ![r].draw_images = accumulate(q.draw_images, p),
             ![r].contents = accumulate(q.contents, clean_page(content, q.jdx)),
             ![r].jdx = q.jdx + 1]
  /\ UNCHANGED twoFrame

\* lines 516-533: the three files named by the request id are written
PersistAll(r) ==
  /\ mode = "requests"
  /\ requests[r].pc = "gen2"
  /\ requests[r].pos = Len(requests[r].pages)
  /\ LET id == requests[r].request_id
     IN disk' = disk \o <<FileWrite(request_path(id, "_det.md"), r, 0),
                          FileWrite(request_path(id, ".md"), r, 0)>>
                     \o (IF requests[r].draw_images # <<>>
                         THEN <<FileWrite(request_path(id, "_layouts.pdf"), r, 0)>>
                         ELSE <<>>)
  /\ requests' = [requests EXCEPT ![r].pc = "done"]
  /\ UNCHANGED twoFrame

NextTwo ==
  \E r \in Requests : Accept(r) \/ Drained(r) \/ RenderNext(r) \/ PersistAll(r)

SpecTwo == InitTwo /\ [][NextTwo]_vars

\* ---- properties ----

PagesOf(acc) == [k \in DOMAIN acc |-> acc[k].page]
Ordered(acc) == \A k, l \in DOMAIN acc : k < l => acc[k].page <= acc[l].page
Count(acc, p) == Cardinality({k \in DOMAIN acc : acc[k].page = p})
Failed == {i \in DOMAIN futures : futures[i] = "failed"}
GenerationReached == pc \in {"gen1", "setup", "gen2", "write_det", "write_md", "write_pdf", "return", "returned"}
\* the handler was ended by nothing but its own code
NoOutsideFault == exc \in {"none", "UnboundLocalError"}

RECURSIVE DeltasOf(_, _)
\* concatenation of the deltas yielded for page p among the items em
DeltasOf(em, p) ==
  IF em = <<>> THEN <<>>
  ELSE IF Head(em).kind = "delta" /\ Head(em).page = p
       THEN Head(em).content \o DeltasOf(Tail(em), p)
       ELSE DeltasOf(Tail(em), p)

\* C1: in the raw markdown, the clean markdown and the annotated-image list
\* the contributions of a page precede those of every later page, whatever
\* the order in which the preprocessing workers finished.
C1_PageOrder == Ordered(contents_det) /\ Ordered(contents) /\ Ordered(draw_images)

C1_Witness ==
  /\ Len(finish_order) = 2 /\ finish_order[1] = 2
  /\ PagesOf(contents_det) = <<1, 2>>
  /\ PagesOf(contents) = <<1, 2>>
  /\ PagesOf(draw_images) = <<1, 2>>

\* C2: no page contributes twice to an accumulator, and a page whose stream
\* was consumed and that is not discarded by repeat-skip contributes its
\* final text exactly once (also its partial text when the policy is off).
C2_ExactlyOnce ==
  \A p \in DOMAIN final_text :
    /\ Count(contents_det, p) <= 1
    /\ Count(contents, p) <= 1
    /\ Count(draw_images, p) <= 1
    /\ (mode = "pdf" /\ p \in ended /\ final_text[p] # <<>> /\ (any_eos[p] \/ ~SKIP_REPEAT))
         => /\ Count(contents_det, p) = 1
            /\ Count(contents, p) = 1
            /\ Count(draw_images, p) = 1
            /\ \E k \in DOMAIN contents_det :
                 contents_det[k] = [page |-> p, text |-> StripEOS(final_text[p])]

\* C3: with SKIP_REPEAT on, a page none of whose snapshots holds the end
\* marker adds no block to either markdown, no annotated image and no
\* draw_bounding_boxes call.
C3_SkipDiscards ==
  \A p \in DOMAIN any_eos :
    (mode = "pdf" /\ SKIP_REPEAT /\ ~any_eos[p])
      => Count(contents_det, p) = 0 /\ Count(contents, p) = 0 /\ Count(draw_images, p) = 0

C3_Witness ==
  /\ mode = "pdf" /\ SKIP_REPEAT
  /\ 1 \in ended /\ ~any_eos[1] /\ final_text[1] = <<"a">>
  /\ PagesOf(contents_det) = <<2>> /\ PagesOf(draw_images) = <<2>>

\* C4: at most one generation session of the document is open at any time.
C4_OneSessionOpen == Cardinality(open) <= 1

C4_Witness ==
  /\ Len(submitted) >= 2
  /\ open = {Len(submitted)}
  /\ pending # <<>>

\* C5: a call of ocr_pdf_handle that returns has submitted exactly one
\* session per page, in page order.
C5_OncePerPage == (mode = "pdf" /\ pc = "returned") => submitted = images

\* C6: the sequence handed to the generation phase has one entry per page,
\* entry i is the preprocessing result of page i, paired by zip with image i,
\* and each page was preprocessed exactly once.
C6_OrderStable ==
  GenerationReached =>
    /\ Len(batch_inputs) = page_count
    /\ \A i \in DOMAIN batch_inputs :
         /\ batch_inputs[i] = process_single_image(i, RequestPrompt)
         /\ batch_inputs[i].image = images[i]
         /\ calls[i] = 1

C6_Witness ==
  /\ pc = "gen1"
  /\ NUM_WORKERS = 2
  /\ finish_order = <<2, 1>>
  /\ Len(batch_inputs) = 2

\* C7: when preprocessing fails for exactly one page, the other pages are
\* still preprocessed and the request is not ended by that failure.
C7_FailureIsolated ==
  (pc \in Exited /\ page_count >= 2 /\ Cardinality(Failed) = 1
     /\ exc \in {"none", "PagePreprocessError"})
    => /\ pc = "returned"
       /\ \A j \in DOMAIN futures : j \notin Failed => futures[j] = "done"

\* C8: once the handler has exited, the temporary PDF file is gone.
C8_TmpFileRemoved == pc \in Exited => ~tmp_exists

\* C9: when stream_ocr_pdf_handle has run to its exit on a document with at
\* least one page, its last two items are the stop chunk and [DONE], and the
\* three artifacts are written.
C9_EndEvent ==
  (mode = "stream" /\ pc \in Exited /\ NoOutsideFault /\ page_count >= 1)
    => /\ Len(emitted) >= 2
       /\ emitted[Len(emitted) - 1].kind = "stop"
       /\ emitted[Len(emitted)].kind = "[DONE]"
       /\ {"det_md", "md", "pdf"} \subseteq files

\* C10: for a page of a multi-page document whose snapshots each extend the
\* previous one, the deltas streamed for the page concatenate to its final
\* snapshot text.
C10_DeltaReplay ==
  (mode = "stream" /\ pc \in Exited /\ NoOutsideFault /\ page_count >= 2)
    => \A k \in DOMAIN submitted :
         extending[submitted[k]] => DeltasOf(emitted, submitted[k]) = final_text[submitted[k]]

\* pages whose output the repeat-skip policy discards
Dropped == {p \in DOMAIN any_eos : SKIP_REPEAT /\ ~any_eos[p]}

\* C11: the markdown returned by ocr_pdf_handle for an N-page PDF, each page
\* of which produced text, holds N page-break markers minus the pages dropped
\* by repeat-skip, and the "images" field of the result is the number of
\* pages of the annotated PDF that was written (one per annotated image).
C11_MarkersAndPageCount ==
  (mode = "pdf" /\ pc = "returned" /\ "pdf" \in files
     /\ \A p \in DOMAIN final_text : final_text[p] # <<>>)
    => /\ Len(result[1].text) = page_count - Cardinality(Dropped)
       /\ result[1].images = Len(draw_images)

\* C12: ocr_pdf_handle returns its success result only when the raw
\* markdown, the clean markdown and the annotated PDF made of the annotated
\* pages have all been written.
C12_NoSuccessWithoutArtifacts ==
  (mode = "pdf" /\ pc = "returned" /\ draw_images # <<>>)
    => {"det_md", "md", "pdf"} \subseteq files

\* ---- claims about one generated text (SpecText) ----
Parsed == "parse_detections" \in applied
Rendered == "render" \in applied

\* C13 as stated: parse_detections on a single well-formed span with label L
\* and coordinates [0,0,999,999] returns one detection with label L unchanged
\* and box (0,0,W,H); on a single span with coordinates [abc] it returns none.
C13_LabelUnchanged ==
  \A L \in {<<"title">>, <<" ", "title", " ">>} :
    /\ (Parsed /\ pieces = <<Span(L, FLAT)>>)
         => boxes = <<[label |-> L, box |-> <<0, 0, image_size[1], image_size[2]>>]>>
    /\ (Parsed /\ pieces = <<Span(L, NOT_A_LITERAL)>>) => boxes = <<>>

\* C13 (amended): parse_detections on a single well-formed span with label L
\* and coordinates [0,0,999,999] returns exactly one detection, whose label is
\* L without its leading and trailing whitespace and whose box is (0,0,W,H);
\* on a single span whose coordinate text is not a parsable list it returns
\* no detection.
C13_SingleSpan ==
  /\ \A L \in {<<"title">>, <<" ", "title", " ">>} :
       (Parsed /\ pieces = <<Span(L, FLAT)>>)
         => boxes = <<[label |-> <<"title">>, box |-> <<0, 0, image_size[1], image_size[2]>>]>>
  /\ \A L \in {<<"title">>, <<"image">>} :
       (Parsed /\ pieces = <<Span(L, NOT_A_LITERAL)>>) => boxes = <<>>

C13_Witness ==
  /\ Parsed
  /\ pieces = <<Span(<<" ", "title", " ">>, FLAT)>>
  /\ image_size = <<111, 1000>>
  /\ boxes = <<[label |-> <<"title">>, box |-> <<0, 0, 111, 1000>>]>>

\* C14: the clean markdown of a rendered page holds none of the four
\* ref/det grounding tokens, whatever the page text was.
C14_NoMarkupLeft ==
  Rendered => \A i \in DOMAIN page_md : page_md[i] \notin GroundingTokens

\* the detections of each span taken alone, in the order of the spans
RECURSIVE PerSpan(_, _, _)
PerSpan(ps, w, h) ==
  IF ps = <<>> THEN <<>> ELSE parse_detections(Head(ps), w, h) \o PerSpan(Tail(ps), w, h)

OnlySpans == \A k \in DOMAIN pieces : pieces[k] \in WellFormedSpans \cup MalformedSpans

\* C16: for a text made of grounding spans, some of them with a coordinate
\* literal that fails to parse, parse_detections returns exactly the
\* detections of the well-formed spans, each with its own label, in order: a
\* malformed span neither removes nor relabels a span that follows it.
C16_MalformedIsolated ==
  (Parsed /\ OnlySpans) => boxes = PerSpan(pieces, image_size[1], image_size[2])

\* round(r / 999 * d): r * d / 999 is never half-way between two integers
Rounded(r, d) == (2 * r * d + GRID) \div (2 * GRID)

\* int(r / 999 * d): the integer part of r * d / 999, or one less than
\* r * d / 999 when that quotient is an integer the double division misses
Truncated(p, r, d) ==
  \/ p * GRID <= r * d /\ r * d < (p + 1) * GRID
  \/ (r * d) % GRID = 0 /\ p = (r * d) \div GRID - 1

\* the single span the text consists of, if it is a span with label L and a
\* list of 4-number boxes as coordinates
OneNestedSpan(L, lit) == pieces = <<Span(L, lit)>> /\ lit \in {NESTED, TWO_BOXES}

\* every pixel coordinate of px is F of the raw coordinate and the page
\* dimension of its axis
Denormalized(px, raw, F(_, _, _)) ==
  /\ Len(px) = Len(raw)
  /\ \A k \in DOMAIN px :
       /\ F(px[k].box[1], raw[k][1], image_size[1])
       /\ F(px[k].box[2], raw[k][2], image_size[2])
       /\ F(px[k].box[3], raw[k][3], image_size[1])
       /\ F(px[k].box[4], raw[k][4], image_size[2])

\* C17 as stated: parse_detections and draw_bounding_boxes compute each pixel
\* coordinate as round(r / 999 * d), d the width for x and the height for y.
C17_Rounds ==
  \A L \in {<<"title">>, <<"image">>}, lit \in {NESTED, TWO_BOXES} :
    OneNestedSpan(L, lit) =>
      /\ Parsed => Denormalized(boxes, literal_value(lit).boxes,
                                LAMBDA p, r, d : p = Rounded(r, d))
      /\ Rendered => Denormalized(result_image.drawn, literal_value(lit).boxes,
                                  LAMBDA p, r, d : p = Rounded(r, d))

\* C17 (amended): parse_detections and draw_bounding_boxes compute each pixel
\* coordinate as int(r / 999 * d): r * d / 999 rounded down, or one less
\* than r * d / 999 when that is an integer; d is the width of the image for
\* x and its height for y.
C17_Truncates ==
  \A L \in {<<"title">>, <<"image">>}, lit \in {NESTED, TWO_BOXES} :
    OneNestedSpan(L, lit) =>
      /\ Parsed => Denormalized(boxes, literal_value(lit).boxes, Truncated)
      /\ Rendered => Denormalized(result_image.drawn, literal_value(lit).boxes, Truncated)

C17_Witness ==
  /\ Parsed /\ Rendered
  /\ pieces = <<Span(<<"image">>, TWO_BOXES)>>
  /\ image_size = <<111, 1000>>
  /\ boxes[1].box = <<6, 500, 111, 1000>>
  /\ result_image.drawn[1].box = <<6, 500, 111, 1000>>

BoxesOf(ds) == [k \in DOMAIN ds |-> ds[k].box]

\* C18: for a text made of well-formed spans, the boxes draw_bounding_boxes
\* draws from re_match's matches are the boxes parse_detections returns: one
\* for a span with a single 4-number box, k for a span with a list of k boxes.
C18_SameBoxes ==
  (Parsed /\ Rendered /\ \A k \in DOMAIN pieces : pieces[k] \in WellFormedSpans)
    => BoxesOf(result_image.drawn) = BoxesOf(boxes)

\* the spans of the text in order, and those of them labeled image
SpanPieces == SelectSeq(pieces, LAMBDA q : q # PlainRun)
ImageSpans == {k \in DOMAIN SpanPieces : SpanPieces[k][2] = "image"}
IsEmbedName(t) == \E k \in 0..(2 * MaxPieces) : t = embed_name(page_jdx, k)
Embeds == SelectSeq(page_md, IsEmbedName)

\* position in SpanPieces of the n-th image span
NthImageSpan(n) ==
  CHOOSE k \in ImageSpans : Cardinality({l \in ImageSpans : l <= k}) = n

\* C19: for a page text made of spans and plain runs, the embed the clean
\* markdown holds in place of the n-th image span names a sub-image file that
\* draw_bounding_boxes saved for a box of that span.
C19_EmbedNamesOwnCrop ==
  (Rendered /\ \A k \in DOMAIN pieces : pieces[k] \in WellFormedSpans \cup MalformedSpans \cup {PlainRun})
    => /\ Len(Embeds) = Cardinality(ImageSpans)
       /\ \A n \in DOMAIN Embeds :
            \E c \in DOMAIN result_image.crops :
              /\ result_image.crops[c].ref = NthImageSpan(n)
              /\ result_image.crops[c].saved
              /\ embed_name(result_image.crops[c].name[1], result_image.crops[c].name[2]) = Embeds[n]

\* ---- claims about the streamed deltas (Spec) ----

\* a step in which stream_response or stream_ocr_pdf_handle takes a snapshot
\* that holds a completion
SnapshotStep ==
  /\ mode \in {"chat", "stream"}
  /\ pc \in {"chat", "gen2"}
  /\ pending # <<>>
  /\ Head(pending) # <<>>
  /\ pending' = Tail(pending)

\* C15: whenever stream_response or stream_ocr_pdf_handle takes a snapshot,
\* also one shorter than the one before, prev_len becomes the length of that
\* snapshot; if the snapshot is longer than the old prev_len exactly one
\* chunk is emitted and its delta is the non-empty suffix of the snapshot
\* from the old prev_len on; otherwise nothing is emitted.
C15_PrevLenTracksSnapshot ==
  [][SnapshotStep =>
       LET full_text == Head(pending)[1] IN
       /\ prev_len' = Len(full_text)
       /\ IF prev_len < Len(full_text)
          THEN /\ Len(emitted') = Len(emitted) + 1
               /\ SubSeq(emitted', 1, Len(emitted)) = emitted
               /\ emitted'[Len(emitted')].kind = "delta"
               /\ emitted'[Len(emitted')].content
                    = SubSeq(full_text, prev_len + 1, Len(full_text))
               /\ emitted'[Len(emitted')].content # <<>>
          ELSE emitted' = emitted]_vars

\* stream_response has emitted a delta and then taken a shorter snapshot
C15_Witness ==
  /\ mode = "chat"
  /\ pc = "chat"
  /\ Len(emitted) = 1
  /\ emitted[1].content = <<"a">>
  /\ prev_len = 0

\* ---- claims about the sub-image files (SpecCrops) ----

\* the index pdf_to_images_high_quality's loop gives page p (page_num)
RasterIndex(p) == p - 1

\* C20: every sub-image file cropped during ocr_pdf_handle is named
\* {page_index}_{subimage_index} with page_index the rasterization index of
\* the page it was cropped from, also after a page dropped by repeat-skip
\* (stated for runs with repeat-skip on in which every page produced text and
\* no page was rendered more than once).
C20_CropNamedByPage ==
  (mode = "pdf" /\ SKIP_REPEAT
     /\ \A p \in DOMAIN final_text : final_text[p] # <<>>
     /\ \A q \in Pages : Count(draw_images, q) <= 1)
    => \A k \in DOMAIN crops : crops[k].name[1] = RasterIndex(crops[k].page)

\* ---- claims about rendering (SpecText) ----

\* the 4-number boxes of a list of boxes
FourNumberBoxes(bs) == SelectSeq(bs, LAMBDA b : Len(b) = 4)

\* the spans whose coordinates are a list of boxes, some box of which may not
\* have four numbers, and the spans whose coordinates do not parse
ListSpans ==
  {Span(<<"title">>, NESTED), Span(<<"image">>, NESTED), Span(<<"image">>, TWO_BOXES),
   Span(<<"title">>, SHORT_BOX)} \cup MalformedSpans

\* the boxes of span q that have four numbers, scaled to the image
RECURSIVE ScaledAll(_)
ScaledAll(bs) ==
  IF bs = <<>> THEN <<>>
  ELSE <<scale_box(Head(bs), image_size[1], image_size[2])>> \o ScaledAll(Tail(bs))

RECURSIVE WellFormedBoxes(_)
WellFormedBoxes(ps) ==
  IF ps = <<>> THEN <<>>
  ELSE ScaledAll(FourNumberBoxes(literal_value(Head(ps)[5]).boxes)) \o WellFormedBoxes(Tail(ps))

\* C21: for a page text made of spans whose coordinates are a list of boxes
\* or do not parse, draw_bounding_boxes draws every box that has four
\* numbers: a box that fails is skipped alone, the boxes after it in the same
\* span and the boxes of later spans are still drawn.
C21_OnlyFailingBoxSkipped ==
  (Rendered /\ \A k \in DOMAIN pieces : pieces[k] \in ListSpans)
    => BoxesOf(result_image.drawn) = WellFormedBoxes(pieces)

\* three newline tokens in a row at position i of s
NewlineRunAt(s, i) == i + 2 <= Len(s) /\ s[i] = NL /\ s[i + 1] = NL /\ s[i + 2] = NL

\* C22: the clean markdown of a rendered page, also of a page without any
\* grounding span or with image spans only, holds neither math escape and no
\* run of three or more newlines.
C22_EscapesAndBlankLines ==
  Rendered =>
    /\ \A i \in DOMAIN page_md : page_md[i] \notin {"\\coloneqq", "\\eqqcolon"}
    /\ \A i \in DOMAIN page_md : ~NewlineRunAt(page_md, i)

\* ---- claims about the display text of /ocr (SpecText) ----

\* what a piece should leave in the display text: a span its label, the
\* grounding-mode marker nothing, a plain run itself
Kept(q) ==
  IF q \in WellFormedSpans THEN SubSeq(q, 2, Len(q) - 4)
  ELSE SelectSeq(q, LAMBDA t : t # GROUNDING)

RECURSIVE KeptAll(_)
KeptAll(ps) == IF ps = <<>> THEN <<>> ELSE Kept(Head(ps)) \o KeptAll(Tail(ps))

\* C25: for a text made of plain runs, grounding-mode markers and well-formed
\* spans, the display text is the text with each span replaced by its own
\* label and the markers removed, stripped of surrounding whitespace: every
\* plain run and every label is preserved.
C25_LabelsAndTextKept ==
  (Parsed /\ \A k \in DOMAIN pieces : pieces[k] \in WellFormedSpans \cup {PlainRun, GroundingMark})
    => display_text = strip(KeptAll(pieces))

\* ---- claims about the image objects (SpecText) ----

\* C23: after a page has been rendered, nothing is drawn on the rasterized
\* page image nor on the image handed to draw_bounding_boxes: every box drawn
\* is on the copy that is returned, and no crop shows a box drawn earlier.
C23_PageImageUntouched ==
  Rendered =>
    /\ page_objects.img = <<>>
    /\ page_objects.image_draw = <<>>
    /\ page_objects.img_draw = BoxesOf(result_image.drawn)
    /\ \A c \in DOMAIN page_objects.crops : page_objects.crops[c] = <<>>

C23_Witness ==
  /\ Rendered
  /\ pieces = <<Span(<<"title">>, NESTED), Span(<<"image">>, TWO_BOXES)>>
  /\ Len(page_objects.img_draw) = 3
  /\ Len(page_objects.crops) = 2
  /\ page_objects.img = <<>>

\* ---- claims about two requests (SpecTwo) ----

\* the request whose write of the file at path is the last one
last_writer(path) ==
  LET E == {e \in DOMAIN disk : disk[e].path = path}
  IN disk[CHOOSE e \in E : \A f \in E : f <= e].owner

\* the sub-image files the clean markdown of request r refers to
referenced(r) ==
  {name \in (0..MaxPages) \X (0..2) :
     \E b \in DOMAIN requests[r].contents :
       \E t \in DOMAIN requests[r].contents[b] :
         requests[r].contents[b][t] = embed_name(name[1], name[2])}

\* C24: of two document requests, no file path written by one is written by
\* the other, and every sub-image file the clean markdown of a finished
\* request refers to was last written by that request.
C24_ArtifactsIsolated ==
  /\ \A e, f \in DOMAIN disk :
       disk[e].path = disk[f].path => disk[e].owner = disk[f].owner
  /\ \A r \in DOMAIN requests :
       requests[r].pc = "done" =>
         \A name \in referenced(r) :
           (\E e \in DOMAIN disk : disk[e].path = crop_path(name)) =>
             last_writer(crop_path(name)) = r
====
